---- MODULE Spec2Model ----
(***************************************************************************)
(* Model of the hybrid search backend: the fusion engine                   *)
(* (src/src/utils.py, aggregate_search_hits) and the search endpoint that  *)
(* drives it (src/src/main.py, search / text_search / vector_search).      *)
(*                                                                         *)
(* Python floats are modelled as follows: raw retrieval scores are small   *)
(* integers, the fused RRF score is an exact rational <<num, den>> with a  *)
(* positive denominator, compared by cross multiplication. Passage text    *)
(* (make_snippet) plays no part in fusion and is left out of the records.  *)
(***************************************************************************)
EXTENDS Integers, Sequences, FiniteSets, TLC

\* ------------------------------------------------------------------ bounds
\* Longest hit sequence given to aggregate_search_hits on its own.
MaxHits == 3
\* Most chunk hits one retrieval adapter returns to a search request.
MaxAdapterHits == 2
\* Most documents of the lexical result of a request that is followed from
\* fusion on (pagination and enrichment of longer fused lists).
MaxResults == 23

Docs == {"d1", "d2"}
Chunks == {"c1", "c2", "c3"}
\* The chunk index: every chunk (key "id") belongs to one document
\* ("document_id"); d1 is split into two chunks, d2 is a single chunk.
ChunkDoc == [c \in Chunks |-> IF c = "c3" THEN "d2" ELSE "d1"]
RawScores == {-1, 0, 1}

\* ------------------------------------------------------------ option values
None == << >>
Some(v) == <<v>>
Val(o) == o[1]

\* ---------------------------------------------------------- float arithmetic
Rat(n, d) == <<n, d>>
RatZero == Rat(0, 1)
RatAdd(a, b) == Rat(a[1] * b[2] + b[1] * a[2], a[2] * b[2])
RatScale(w, a) == Rat(w * a[1], a[2])
RatGt(a, b) == a[1] * b[2] > b[1] * a[2]
RatEq(a, b) == a[1] * b[2] = b[1] * a[2]

max(a, b) == IF a >= b THEN a ELSE b
min(a, b) == IF a <= b THEN a ELSE b

\* ------------------------------------------------------------------ records
Passage(chunk_id, score, retriever) ==
    [chunk_id |-> chunk_id, score |-> score, retriever |-> retriever]

SearchHit(id, bm25, cosine, passages) ==
    [id |-> id, bm25 |-> bm25, cosine |-> cosine, score |-> RatZero,
     meta |-> None, passages |-> passages]

\* The per-chunk hit text_search builds from one item of the lexical result.
text_search_hit(doc, chunk, s) ==
    SearchHit(doc, Some(s), None, <<Passage(chunk, s, "bm25")>>)

\* The per-chunk hit vector_search builds from one item of the vector result.
vector_search_hit(doc, chunk, s) ==
    SearchHit(doc, None, Some(s), <<Passage(chunk, s, "vector")>>)

\* ------------------------------------------------------- aggregate_search_hits
text_hits(hits_list) == SelectSeq(hits_list, LAMBDA h : h.bm25 # None)
vector_hits(hits_list) == SelectSeq(hits_list, LAMBDA h : h.cosine # None)

\* Mutant of setdefault: plain assignment, the last occurrence wins.
setdefault_overwrite(d, key, value) ==
    [k \in DOMAIN d \cup {key} |-> IF k = key THEN value ELSE d[k]]

\* dict.setdefault(key, value): keeps the value of a key that is present.
setdefault(d, key, value) ==
    IF key \in DOMAIN d THEN d ELSE d @@ (key :> value)

\* for i, h in enumerate(hs, start=1): rank.setdefault(h.id, i)
RECURSIVE rank_map(_, _, _)
rank_map(hs, i, rank) ==
    IF i > Len(hs) THEN rank
    ELSE rank_map(hs, i + 1, setdefault(rank, hs[i].id, i))

text_rank(hits_list) == rank_map(text_hits(hits_list), 1, << >>)
vector_rank(hits_list) == rank_map(vector_hits(hits_list), 1, << >>)

\* merged is an insertion-ordered dict: a sequence of hits with distinct ids.
HasDoc(merged, doc_id) == \E i \in 1..Len(merged) : merged[i].id = doc_id
DocIndex(merged, doc_id) == CHOOSE i \in 1..Len(merged) : merged[i].id = doc_id

\* Mutant of _ensure: no membership test, a new entry for every hit.
_ensure_always_appends(merged, doc_id) ==
    Append(merged, SearchHit(doc_id, None, None, << >>))

_ensure(merged, doc_id) ==
    IF HasDoc(merged, doc_id) THEN merged
    ELSE Append(merged, SearchHit(doc_id, None, None, << >>))

\* max(old or float("-inf"), new): None and 0.0 are both falsy in Python.
keep_best(old, new) ==
    IF old = None \/ Val(old) = 0 THEN Some(new) ELSE Some(max(Val(old), new))

\* One iteration of "for h in hits_list" (lines 79-90).
fold_hit(merged, h) ==
    LET m1 == _ensure(merged, h.id)
        i == DocIndex(m1, h.id)
        m == m1[i]
        b == IF h.bm25 # None THEN keep_best(m.bm25, Val(h.bm25)) ELSE m.bm25
        c == IF h.cosine # None THEN keep_best(m.cosine, Val(h.cosine)) ELSE m.cosine
        ps == IF h.passages # << >> THEN m.passages \o h.passages ELSE m.passages
    IN  [m1 EXCEPT ![i] = [m EXCEPT !.bm25 = b, !.cosine = c, !.passages = ps]]

RECURSIVE fold_hits(_, _, _)
fold_hits(hits_list, i, merged) ==
    IF i > Len(hits_list) THEN merged
    ELSE fold_hits(hits_list, i + 1, fold_hit(merged, hits_list[i]))

\* Mutant of rrf_score: ranks taken 0-based.
rrf_score_zero_based(doc_id, trank, vrank, w_text, w_vector, rrf_k) ==
    LET s1 == IF doc_id \in DOMAIN trank
              THEN RatAdd(RatZero, RatScale(w_text, Rat(1, rrf_k + trank[doc_id] - 1)))
              ELSE RatZero
    IN  IF doc_id \in DOMAIN vrank
        THEN RatAdd(s1, RatScale(w_vector, Rat(1, rrf_k + vrank[doc_id] - 1)))
        ELSE s1

\* s = 0.0; s += w_text * (1.0 / (rrf_k + text_rank[doc_id])); ...
rrf_score(doc_id, trank, vrank, w_text, w_vector, rrf_k) ==
    LET s0 == RatZero
        s1 == IF doc_id \in DOMAIN trank
              THEN RatAdd(s0, RatScale(w_text, Rat(1, rrf_k + trank[doc_id])))
              ELSE s0
        s2 == IF doc_id \in DOMAIN vrank
              THEN RatAdd(s1, RatScale(w_vector, Rat(1, rrf_k + vrank[doc_id])))
              ELSE s1
    IN  s2

\* best_by_chunk is an insertion-ordered dict chunk_id -> Passage: a sequence
\* of passages with distinct chunk ids; a better passage replaces in place.
HasChunk(best, chunk_id) == \E i \in 1..Len(best) : best[i].chunk_id = chunk_id
ChunkIndex(best, chunk_id) == CHOOSE i \in 1..Len(best) : best[i].chunk_id = chunk_id

\* Mutant of best_by_chunk_step: the last passage of a chunk wins.
best_by_chunk_step_keep_last(best, p) ==
    IF ~HasChunk(best, p.chunk_id) THEN Append(best, p)
    ELSE [best EXCEPT ![ChunkIndex(best, p.chunk_id)] = p]

best_by_chunk_step(best, p) ==
    IF ~HasChunk(best, p.chunk_id) THEN Append(best, p)
    ELSE LET i == ChunkIndex(best, p.chunk_id)
         IN  IF p.score > best[i].score THEN [best EXCEPT ![i] = p] ELSE best

RECURSIVE best_by_chunk(_, _, _)
best_by_chunk(passages, i, best) ==
    IF i > Len(passages) THEN best
    ELSE best_by_chunk(passages, i + 1, best_by_chunk_step(best, passages[i]))

\* sorted(..., key=score, reverse=True) is stable: an element goes after all
\* elements already placed whose key is not smaller than its own.
InsertAt(s, n, x) == SubSeq(s, 1, n) \o <<x>> \o SubSeq(s, n + 1, Len(s))

insert_passage(s, p) ==
    InsertAt(s, Cardinality({i \in 1..Len(s) : s[i].score >= p.score}), p)

RECURSIVE sorted_passages(_, _, _)
sorted_passages(ps, i, acc) ==
    IF i > Len(ps) THEN acc
    ELSE sorted_passages(ps, i + 1, insert_passage(acc, ps[i]))

\* Mutant of insert_hit: an unstable sort, ties placed in reverse input order.
insert_hit_before_ties(s, h) ==
    InsertAt(s, Cardinality({i \in 1..Len(s) : RatGt(s[i].score, h.score)}), h)

insert_hit(s, h) ==
    InsertAt(s, Cardinality({i \in 1..Len(s) : ~RatGt(h.score, s[i].score)}), h)

RECURSIVE sorted_hits(_, _, _)
sorted_hits(hs, i, acc) ==
    IF i > Len(hs) THEN acc
    ELSE sorted_hits(hs, i + 1, insert_hit(acc, hs[i]))

\* [:max_passages_per_doc]
top_n(s, n) == SubSeq(s, 1, min(n, Len(s)))

\* One iteration of "for doc_id, m in merged.items()" (lines 93-109).
score_doc(m, trank, vrank, w_text, w_vector, rrf_k, max_passages_per_doc) ==
    [m EXCEPT
       !.score = rrf_score(m.id, trank, vrank, w_text, w_vector, rrf_k),
       !.passages = top_n(sorted_passages(best_by_chunk(m.passages, 1, << >>), 1, << >>),
                          max_passages_per_doc)]

aggregate_search_hits(hits, w_text, w_vector, rrf_k, max_passages_per_doc) ==
    LET trank == text_rank(hits)
        vrank == vector_rank(hits)
        merged == fold_hits(hits, 1, << >>)
        scored == [i \in 1..Len(merged) |->
                     score_doc(merged[i], trank, vrank, w_text, w_vector, rrf_k,
                               max_passages_per_doc)]
    IN  sorted_hits(scored, 1, << >>)

\* --------------------------------------------------------------------- state
\* The fusion engine called on its own.
VARIABLES agg_pc, agg_hits, agg_params, agg_ranks, agg_out

\* One search request (the locals of the coroutine search) and its environment.
VARIABLES
    request,                    \* page and page_size as the caller gave them
    query, page, page_size,     \* the parameters, then the normalized locals
    pc,                         \* the await the coroutine is suspended at
    k,                          \* the recall budget, 0 before it is computed
    unavailable,                \* the external services that raise when called
    calls,                      \* per external service: idle, pending, done, raised
    top_k,                      \* the budget each chunk search was called with
    text_search_hits, vector_search_hits,
    documents, paginated,
    meta_calls,                 \* the document ids looked up, in call order
    response                    \* None until search returns

agg_vars == <<agg_pc, agg_hits, agg_params, agg_ranks, agg_out>>
search_vars == <<request, query, page, page_size, pc, k, unavailable, calls, top_k,
                 text_search_hits, vector_search_hits, documents, paginated,
                 meta_calls, response>>
vars == <<agg_vars, search_vars>>

\* The services that can be down, and every kind of external call.
Services == {"lexical", "embedding", "vector"}
CallKinds == Services \cup {"metadata"}

\* The request before search runs; the fusion engine on its own leaves it so.
SearchIdle ==
    /\ query = "q" /\ page = 1 /\ page_size = 10
    /\ request = [page |-> 1, page_size |-> 10]
    /\ pc = "start"
    /\ k = 0
    /\ unavailable = {}
    /\ calls = [s \in CallKinds |-> "idle"]
    /\ top_k = [s \in {"lexical", "vector"} |-> 0]
    /\ text_search_hits = << >> /\ vector_search_hits = << >>
    /\ documents = << >> /\ paginated = << >>
    /\ meta_calls = << >>
    /\ response = None

AggIdle ==
    /\ agg_pc = "idle"
    /\ agg_hits = << >>
    /\ agg_params = [w_text |-> 1, w_vector |-> 1, rrf_k |-> 60, max_passages_per_doc |-> 3]
    /\ agg_ranks = [text |-> << >>, vector |-> << >>]
    /\ agg_out = << >>

\* Every per-chunk hit a retrieval adapter can produce over the bounded sets.
ChunkHits ==
    {text_search_hit(ChunkDoc[c], c, s) : c \in Chunks, s \in RawScores}
    \cup {vector_search_hit(ChunkDoc[c], c, s) : c \in Chunks, s \in RawScores}

HitSeqs == UNION {[1..n -> ChunkHits] : n \in 0..MaxHits}

\* Keyword arguments of aggregate_search_hits: the defaults and one variation.
DefaultParams == [w_text |-> 1, w_vector |-> 1, rrf_k |-> 60, max_passages_per_doc |-> 3]
AggParams == {DefaultParams,
              [w_text |-> 2, w_vector |-> 1, rrf_k |-> 60, max_passages_per_doc |-> 1]}

AggInit ==
    /\ agg_pc = "input"
    /\ agg_hits \in HitSeqs
    /\ agg_params \in AggParams
    /\ agg_ranks = [text |-> << >>, vector |-> << >>]
    /\ agg_out = << >>
    /\ SearchIdle

\* One call of aggregate_search_hits; agg_ranks records the two rank maps it
\* builds on the way (lines 64-70).
Aggregate ==
    /\ agg_pc = "input"
    /\ agg_ranks' = [text |-> text_rank(agg_hits), vector |-> vector_rank(agg_hits)]
    /\ agg_out' = aggregate_search_hits(agg_hits, agg_params.w_text, agg_params.w_vector,
                                        agg_params.rrf_k, agg_params.max_passages_per_doc)
    /\ agg_pc' = "done"
    /\ UNCHANGED <<agg_hits, agg_params>>
    /\ UNCHANGED search_vars

SpecAgg == AggInit /\ [][Aggregate]_vars

\* ------------------------------------------------------------- search request
\* The query is an opaque string; the queries of the model are shorter than
\* TOKEN_LIMIT, so vector_search embeds them untruncated.
Queries == {"", " ", "q"}
PageInputs == -1..2
PageSizeInputs == -1..2

\* Raw scores the search service returns with an item ("@search.score").
SearchScores == {1, 2}

\* What one chunk search can return: at most top items, each chunk of the
\* index at most once, ordered best first.
AdapterResults(top) ==
    {r \in UNION {[1..n -> Chunks \X SearchScores] : n \in 0..MaxAdapterHits} :
        /\ Len(r) <= top
        /\ \A i, j \in 1..Len(r) : i < j => r[i][1] # r[j][1] /\ r[i][2] >= r[j][2]}

\* Mutant of _recall_k: the floor of 50 forgotten.
_recall_k_no_floor(p, ps) == p * ps * 5

_recall_k(p, ps) == max(50, p * ps * 5)

\* hits.append(SearchHit(...)) for every item of the result, in result order.
text_search(r) == [i \in 1..Len(r) |-> text_search_hit(ChunkDoc[r[i][1]], r[i][1], r[i][2])]
vector_search(r) == [i \in 1..Len(r) |-> vector_search_hit(ChunkDoc[r[i][1]], r[i][1], r[i][2])]

\* documents[start:end] for 0 <= start <= end.
Slice(s, start, end) == SubSeq(s, start + 1, min(end, Len(s)))

\* Mutant of total_pages: floor instead of ceiling.
total_pages_floor(total_results, ps) == total_results \div ps

\* total_pages = (total_results + page_size - 1) // page_size
total_pages(total_results, ps) == (total_results + ps - 1) \div ps

\* Mutant of DocumentMetaData: the metadata is fetched but never attached.
DocumentMetaData_absent(doc_id) == None

\* DocumentMetaData built from the document the metadata store returns.
DocumentMetaData(doc_id) == Some([title |-> doc_id])

\* The dict search returns.
Response(n_results, n_pages, results) ==
    Some([query |-> query, page |-> page, page_size |-> page_size,
          total_results |-> n_results, total_pages |-> n_pages,
          results |-> results])

\* search from the fused list on (lines 217-226): count, slice, then either
\* await the first metadata lookup or, the page being empty, return.
Paginate(docs) ==
    LET total_results == Len(docs)
        start == (page - 1) * page_size
        end == start + page_size
        slice == Slice(docs, start, end)
    IN  /\ documents' = docs
        /\ paginated' = slice
        /\ IF slice = << >>
           THEN /\ pc' = "done"
                /\ calls' = [calls EXCEPT !.vector = "done"]
                /\ meta_calls' = meta_calls
                /\ response' = Response(total_results,
                                        total_pages(total_results, page_size), slice)
           ELSE /\ pc' = "get_document"
                /\ calls' = [calls EXCEPT !.vector = "done", !.metadata = "pending"]
                /\ meta_calls' = Append(meta_calls, slice[1].id)
                /\ response' = response

Init ==
    /\ AggIdle
    /\ query \in Queries
    /\ page \in PageInputs
    /\ page_size \in PageSizeInputs
    /\ request = [page |-> page, page_size |-> page_size]
    /\ pc = "start"
    /\ k = 0
    /\ unavailable \in SUBSET Services
    /\ calls = [s \in CallKinds |-> "idle"]
    /\ top_k = [s \in {"lexical", "vector"} |-> 0]
    /\ text_search_hits = << >> /\ vector_search_hits = << >>
    /\ documents = << >> /\ paginated = << >>
    /\ meta_calls = << >>
    /\ response = None

\* search, lines 205-212, up to the await of the chunk search in text_search.
SearchStart ==
    /\ UNCHANGED agg_vars
    /\ pc = "start"
    /\ LET p == IF page < 1 THEN 1 ELSE page
           ps == IF page_size < 1 THEN 10 ELSE page_size
       IN  /\ page' = p
           /\ page_size' = ps
           /\ k' = _recall_k(p, ps)
           /\ top_k' = [top_k EXCEPT !.lexical = _recall_k(p, ps)]
    /\ calls' = [calls EXCEPT !.lexical = "pending"]
    /\ pc' = "text_search"
    /\ UNCHANGED <<request, query, unavailable, text_search_hits, vector_search_hits,
                   documents, paginated, meta_calls, response>>

\* The lexical chunk search returns; text_search builds its hits and returns;
\* search goes on into vector_search, up to the await of the embedding.
TextSearchReturn ==
    /\ UNCHANGED agg_vars
    /\ pc = "text_search"
    /\ "lexical" \notin unavailable
    /\ \E r \in AdapterResults(top_k.lexical) : text_search_hits' = text_search(r)
    /\ calls' = [calls EXCEPT !.lexical = "done", !.embedding = "pending"]
    /\ pc' = "embedding"
    /\ UNCHANGED <<request, query, page, page_size, k, unavailable, top_k, vector_search_hits,
                   documents, paginated, meta_calls, response>>

\* The lexical chunk search raises: nothing catches it, the request fails.
TextSearchError ==
    /\ UNCHANGED agg_vars
    /\ pc = "text_search"
    /\ "lexical" \in unavailable
    /\ calls' = [calls EXCEPT !.lexical = "raised"]
    /\ pc' = "failed"
    /\ UNCHANGED <<request, query, page, page_size, k, unavailable, top_k, text_search_hits,
                   vector_search_hits, documents, paginated, meta_calls, response>>

\* The embedding returns; vector_search goes on to the await of its chunk search.
EmbeddingReturn ==
    /\ UNCHANGED agg_vars
    /\ pc = "embedding"
    /\ "embedding" \notin unavailable
    /\ calls' = [calls EXCEPT !.embedding = "done", !.vector = "pending"]
    /\ top_k' = [top_k EXCEPT !.vector = k]
    /\ pc' = "vector_search"
    /\ UNCHANGED <<request, query, page, page_size, k, unavailable, text_search_hits,
                   vector_search_hits, documents, paginated, meta_calls, response>>

EmbeddingError ==
    /\ UNCHANGED agg_vars
    /\ pc = "embedding"
    /\ "embedding" \in unavailable
    /\ calls' = [calls EXCEPT !.embedding = "raised"]
    /\ pc' = "failed"
    /\ UNCHANGED <<request, query, page, page_size, k, unavailable, top_k, text_search_hits,
                   vector_search_hits, documents, paginated, meta_calls, response>>

\* The vector chunk search returns; search fuses, counts and slices (lines
\* 215-222), then either awaits the first metadata lookup or, the page being
\* empty, returns.
VectorSearchReturn ==
    /\ UNCHANGED agg_vars
    /\ pc = "vector_search"
    /\ "vector" \notin unavailable
    /\ \E r \in AdapterResults(top_k.vector) :
        LET vhits == vector_search(r)
        IN  /\ vector_search_hits' = vhits
            /\ Paginate(aggregate_search_hits(text_search_hits \o vhits, 1, 1, 60, 3))
    /\ UNCHANGED <<request, query, page, page_size, k, unavailable, top_k, text_search_hits>>

VectorSearchError ==
    /\ UNCHANGED agg_vars
    /\ pc = "vector_search"
    /\ "vector" \in unavailable
    /\ calls' = [calls EXCEPT !.vector = "raised"]
    /\ pc' = "failed"
    /\ UNCHANGED <<request, query, page, page_size, k, unavailable, top_k, text_search_hits,
                   vector_search_hits, documents, paginated, meta_calls, response>>

\* The lookup of the current page entry returns: doc.meta is set on the hit
\* object, which documents and paginated share; then the next lookup is awaited
\* or, after the last entry, search returns.
GetDocumentReturn ==
    /\ UNCHANGED agg_vars
    /\ pc = "get_document"
    /\ LET i == Len(meta_calls)
           start == (page - 1) * page_size
           enriched == [paginated EXCEPT ![i].meta = DocumentMetaData(paginated[i].id)]
           total_results == Len(documents)
       IN  /\ paginated' = enriched
           /\ documents' = [documents EXCEPT ![start + i] = enriched[i]]
           /\ IF i < Len(paginated)
              THEN /\ meta_calls' = Append(meta_calls, paginated[i + 1].id)
                   /\ pc' = "get_document"
                   /\ calls' = calls
                   /\ response' = response
              ELSE /\ meta_calls' = meta_calls
                   /\ pc' = "done"
                   /\ calls' = [calls EXCEPT !.metadata = "done"]
                   /\ response' = Response(total_results,
                                           total_pages(total_results, page_size), enriched)
    /\ UNCHANGED <<request, query, page, page_size, k, unavailable, top_k,
                   text_search_hits, vector_search_hits>>

\* The lookup of the current page entry raises (or the document it returns
\* cannot be converted): the exception leaves the loop and search.
GetDocumentError ==
    /\ UNCHANGED agg_vars
    /\ pc = "get_document"
    /\ calls' = [calls EXCEPT !.metadata = "raised"]
    /\ pc' = "failed"
    /\ UNCHANGED <<request, query, page, page_size, k, unavailable, top_k,
                   text_search_hits, vector_search_hits, documents, paginated,
                   meta_calls, response>>

Next ==
    \/ SearchStart
    \/ TextSearchReturn
    \/ TextSearchError
    \/ EmbeddingReturn
    \/ EmbeddingError
    \/ VectorSearchReturn
    \/ VectorSearchError
    \/ GetDocumentReturn
    \/ GetDocumentError

Spec == Init /\ [][Next]_vars

\* ------------------------------------------- search request, from fusion on
\* Requests over a larger index, followed from the await of the vector chunk
\* search: the lexical search has returned one chunk of each of n documents
\* and the query has been embedded.
PageChoices == 1..4
PageSizeChoices == {1, 2, 3, 10}

LexicalResult(n) == [i \in 1..n |-> text_search_hit(ToString(i), ToString(i), 1)]

PageInit ==
    /\ AggIdle
    /\ query = "q"
    /\ page \in PageChoices
    /\ page_size \in PageSizeChoices
    /\ request = [page |-> page, page_size |-> page_size]
    /\ pc = "vector_search"
    /\ k = _recall_k(page, page_size)
    /\ unavailable = {}
    /\ calls = [s \in CallKinds |->
                  IF s = "vector" THEN "pending" ELSE IF s = "metadata" THEN "idle" ELSE "done"]
    /\ top_k = [s \in {"lexical", "vector"} |-> k]
    /\ \E n \in 0..MaxResults : text_search_hits = LexicalResult(n)
    /\ vector_search_hits = << >>
    /\ documents = << >> /\ paginated = << >>
    /\ meta_calls = << >>
    /\ response = None

PageNext ==
    \/ VectorSearchReturn
    \/ GetDocumentReturn
    \/ GetDocumentError

SpecPage == PageInit /\ [][PageNext]_vars

\* ------------------------------------------------- fusion engine: properties
AggDone == agg_pc = "done"

HitIdx == 1..Len(agg_hits)
OutIdx == 1..Len(agg_out)
InputIds == {agg_hits[i].id : i \in HitIdx}
OutputIds == {agg_out[i].id : i \in OutIdx}

MinOf(S) == CHOOSE x \in S : \A y \in S : x <= y
MaxOf(S) == CHOOSE x \in S : \A y \in S : x >= y

\* Indices of the input hits of document d that carry a lexical / vector score.
LexIdx(d) == {i \in HitIdx : agg_hits[i].id = d /\ agg_hits[i].bm25 # None}
VecIdx(d) == {i \in HitIdx : agg_hits[i].id = d /\ agg_hits[i].cosine # None}

\* 1-based position of the first chunk of d within the lexical / vector
\* subsequence of the input.
LexPos(d) == Cardinality({j \in 1..MinOf(LexIdx(d)) : agg_hits[j].bm25 # None})
VecPos(d) == Cardinality({j \in 1..MinOf(VecIdx(d)) : agg_hits[j].cosine # None})

\* C1: the document ids of the output of aggregate_search_hits are exactly the
\* distinct document ids of the input (the empty input gives the empty list),
\* and no id occurs twice in the output.
C1_IdsExactAndUnique ==
    AggDone =>
        /\ OutputIds = InputIds
        /\ \A i, j \in OutIdx : agg_out[i].id = agg_out[j].id => i = j
        /\ (agg_hits = << >> => agg_out = << >>)

\* C1 witness: a document contributes several chunk hits and is output once,
\* next to another document.
C1_Witness ==
    /\ AggDone
    /\ Len(agg_hits) = 3
    /\ Cardinality(InputIds) = 2
    /\ Len(agg_out) = 2

\* The fused score the claim gives document d, as an exact rational.
ExpectedScore(d) ==
    LET rk == agg_params.rrf_k
        t == IF LexIdx(d) # {} THEN Rat(agg_params.w_text, rk + LexPos(d)) ELSE RatZero
        v == IF VecIdx(d) # {} THEN Rat(agg_params.w_vector, rk + VecPos(d)) ELSE RatZero
    IN  Rat(t[1] * v[2] + v[1] * t[2], t[2] * v[2])

\* C2: the fused score of every output document is w_text/(rrf_k + rt) if it
\* has a lexical hit plus w_vector/(rrf_k + rv) if it has a vector hit, rt and
\* rv being the 1-based positions of its first chunk in the lexical and vector
\* subsequences; with rrf_k = 60 and weights 1, lexical rank 1 alone gives
\* 1/61 and rank 1 in both modalities gives 2/61.
C2_FusedScore ==
    AggDone =>
        \A i \in OutIdx :
            LET d == agg_out[i].id
                s == agg_out[i].score
            IN  /\ s[2] > 0
                /\ RatEq(s, ExpectedScore(d))
                /\ (agg_params = DefaultParams /\ LexIdx(d) # {} /\ VecIdx(d) = {}
                        /\ LexPos(d) = 1
                      => s[1] * 61 = s[2])
                /\ (agg_params = DefaultParams /\ LexIdx(d) # {} /\ VecIdx(d) # {}
                        /\ LexPos(d) = 1 /\ VecPos(d) = 1
                      => s[1] * 61 = 2 * s[2])

\* C2 witness: with the default parameters one document is first in both
\* modalities (2/61) and another has a single lexical hit at rank 2.
C2_Witness ==
    /\ AggDone
    /\ agg_params = DefaultParams
    /\ \E i, j \in OutIdx :
        /\ LexIdx(agg_out[i].id) # {} /\ VecIdx(agg_out[i].id) # {}
        /\ LexPos(agg_out[i].id) = 1 /\ VecPos(agg_out[i].id) = 1
        /\ agg_out[i].score[1] * 61 = 2 * agg_out[i].score[2]
        /\ LexIdx(agg_out[j].id) # {} /\ VecIdx(agg_out[j].id) = {}
        /\ LexPos(agg_out[j].id) = 2

\* Number of distinct document ids among the first n hits of a sequence.
DistinctUpTo(hs, n) == Cardinality({hs[j].id : j \in 1..n})
FirstIn(hs, d) == MinOf({i \in 1..Len(hs) : hs[i].id = d})

\* The rank the claim C3 gives: n for the n-th distinct document id.
DenseRankOk(hs, rank) ==
    \A d \in DOMAIN rank : rank[d] = DistinctUpTo(hs, FirstIn(hs, d))

\* C3 (as claimed): in each modality's rank map the n-th distinct document id
\* receives rank n, also when a document contributes several chunks before a
\* new document id first appears.
C3_DenseRank ==
    AggDone =>
        /\ DenseRankOk(text_hits(agg_hits), agg_ranks.text)
        /\ DenseRankOk(vector_hits(agg_hits), agg_ranks.vector)

\* The rank the code gives: the position of the document's first chunk, i.e.
\* n plus the number of repeated chunks of earlier documents before it.
PositionRankOk(hs, rank) ==
    /\ DOMAIN rank = {hs[i].id : i \in 1..Len(hs)}
    /\ \A d \in DOMAIN rank :
        /\ rank[d] = FirstIn(hs, d)
        /\ rank[d] >= DistinctUpTo(hs, FirstIn(hs, d))
        /\ (rank[d] = DistinctUpTo(hs, FirstIn(hs, d))
              <=> \A i, j \in 1..FirstIn(hs, d) : hs[i].id = hs[j].id => i = j)

\* C3 (amended): each document id receives as rank the 1-based position of its
\* first chunk in the modality's hit order; the first id gets rank 1, and the
\* n-th distinct id gets rank n exactly when no document contributed several
\* chunks before it, and a larger rank otherwise.
C3_PositionRank ==
    AggDone =>
        /\ PositionRankOk(text_hits(agg_hits), agg_ranks.text)
        /\ PositionRankOk(vector_hits(agg_hits), agg_ranks.vector)

\* C3 witness: a document contributes two lexical chunks before a second
\* document id first appears, which is ranked 3.
C3_Witness ==
    /\ AggDone
    /\ \E d \in DOMAIN agg_ranks.text :
        /\ agg_ranks.text[d] = 3
        /\ DistinctUpTo(text_hits(agg_hits), 3) = 2

\* Maximum of the raw scores of a field over a set of input hits, absent when
\* the set is empty.
MaxBm25(d) == IF LexIdx(d) = {} THEN None
              ELSE Some(MaxOf({Val(agg_hits[i].bm25) : i \in LexIdx(d)}))
MaxCosine(d) == IF VecIdx(d) = {} THEN None
                ELSE Some(MaxOf({Val(agg_hits[i].cosine) : i \in VecIdx(d)}))

\* C4: the bm25 (cosine) field of every output document is the maximum of the
\* bm25 (cosine) values of all input hits of that document, absent if there
\* are none, also for sequences with the value 0 or negative values.
C4_MaxRawScores ==
    AggDone =>
        \A i \in OutIdx :
            /\ agg_out[i].bm25 = MaxBm25(agg_out[i].id)
            /\ agg_out[i].cosine = MaxCosine(agg_out[i].id)

\* Input passages of document d, and the best score of each of its chunks.
DocPassages(d) ==
    {agg_hits[i].passages[n] :
        i \in {j \in HitIdx : agg_hits[j].id = d}, n \in 1..1}
DocChunks(d) == {p.chunk_id : p \in DocPassages(d)}
BestChunkScore(d, c) == MaxOf({p.score : p \in {q \in DocPassages(d) : q.chunk_id = c}})

\* C5: per output document the passages hold each chunk_id at most once, the
\* passage kept for a chunk is an input passage carrying the chunk's highest
\* score, the list is sorted by score non-increasing, its length is
\* min(max_passages_per_doc, number of distinct chunk ids), and no dropped
\* chunk has a strictly higher best score than a kept one.
C5_Passages ==
    AggDone =>
        \A i \in OutIdx :
            LET d == agg_out[i].id
                ps == agg_out[i].passages
                kept == {ps[n].chunk_id : n \in 1..Len(ps)}
            IN  /\ \A m, n \in 1..Len(ps) : ps[m].chunk_id = ps[n].chunk_id => m = n
                /\ \A n \in 1..Len(ps) :
                    /\ ps[n] \in DocPassages(d)
                    /\ ps[n].score = BestChunkScore(d, ps[n].chunk_id)
                /\ \A m, n \in 1..Len(ps) : m < n => ps[m].score >= ps[n].score
                /\ Len(ps) = min(agg_params.max_passages_per_doc, Cardinality(DocChunks(d)))
                /\ \A c \in DocChunks(d) \ kept : \A n \in 1..Len(ps) :
                    BestChunkScore(d, c) <= ps[n].score

\* C5 witness: a document has more distinct chunks than max_passages_per_doc,
\* one of them returned twice with different scores, and a chunk is dropped.
C5_Witness ==
    /\ AggDone
    /\ \E i \in OutIdx :
        LET d == agg_out[i].id
        IN  /\ Cardinality(DocChunks(d)) > agg_params.max_passages_per_doc
            /\ Len(agg_out[i].passages) = agg_params.max_passages_per_doc
            /\ \E p, q \in DocPassages(d) :
                p.chunk_id = q.chunk_id /\ p.score < q.score

\* Index of the first input hit of document d.
FirstOccurrence(d) == MinOf({i \in HitIdx : agg_hits[i].id = d})

\* C6: the output is ordered by fused score non-increasing, and documents of
\* equal fused score keep the order in which their ids first occur in the input.
C6_SortedStable ==
    AggDone =>
        \A i, j \in OutIdx :
            i < j =>
                /\ ~RatGt(agg_out[j].score, agg_out[i].score)
                /\ (RatEq(agg_out[i].score, agg_out[j].score)
                      => FirstOccurrence(agg_out[i].id) < FirstOccurrence(agg_out[j].id))

\* C6 witness: two documents tie on the fused score, the one output first
\* being the one whose id occurs first in the input.
C6_Witness ==
    /\ AggDone
    /\ \E i, j \in OutIdx :
        /\ i < j
        /\ RatEq(agg_out[i].score, agg_out[j].score)
        /\ agg_out[i].id = agg_hits[1].id

\* C6 witness of the reordering: the document whose id occurs first in the
\* input is output second, behind a strictly higher fused score.
C6_Reordered ==
    /\ AggDone
    /\ Len(agg_out) = 2
    /\ agg_out[2].id = agg_hits[1].id
    /\ RatGt(agg_out[1].score, agg_out[2].score)

\* ------------------------------------------------ search request: properties
Failed == pc = "failed"

\* C7: if the lexical adapter call raises and the vector adapter call succeeds
\* or would succeed, the request does not fail; the failed modality counts as
\* having returned no hits.
C7_LexicalErrorDegrades ==
    (calls.lexical = "raised" /\ "embedding" \notin unavailable
        /\ "vector" \notin unavailable)
      => ~Failed

\* The vector adapter call (vector_search) has been started / is in flight.
VectorStarted == calls.embedding # "idle"
LexicalInFlight == calls.lexical = "pending"
VectorInFlight == calls.embedding = "pending" \/ calls.vector = "pending"

\* C8: the vector adapter call is started without waiting for the lexical call
\* to complete (at the step that starts it the lexical call is still in
\* flight), and fusion starts only after both calls have completed.
C8_ConcurrentRetrieval ==
    [][/\ (~VectorStarted /\ VectorStarted') => LexicalInFlight'
       /\ (documents' # documents) => (calls'.lexical = "done" /\ calls'.vector = "done")
      ]_vars

\* What the code does instead: the two adapter calls are never in flight
\* together, the vector call starts in the step that completes the lexical one.
SequentialRetrieval == ~(LexicalInFlight /\ VectorInFlight)

\* C9: a failed metadata lookup does not abort the other page entries: once
\* the request has ended, the lookup has been performed for every document of
\* the page slice.
C9_MetadataFailureIsolated ==
    (pc \in {"done", "failed"} /\ calls.metadata = "raised")
      => \A i \in 1..Len(paginated) : \E j \in 1..Len(meta_calls) :
            meta_calls[j] = paginated[i].id

\* " ".strip() == "": the queries that are empty or only whitespace.
IsBlank(q) == q \in {"", " "}

\* C10: for an empty or whitespace query neither the lexical adapter, the
\* embedding provider nor the vector adapter is ever called.
C10_EmptyQueryRejected ==
    IsBlank(query) =>
        calls.lexical = "idle" /\ calls.embedding = "idle" /\ calls.vector = "idle"

\* Fusion has finished: both retrieval calls returned and documents is set.
FusionDone == calls.lexical = "done" /\ calls.vector = "done"

\* The positions of the fused list that the requested page covers.
PageStart == (page - 1) * page_size
OnPage(i) == i > PageStart /\ i <= PageStart + page_size

\* Number of metadata lookups issued for document id d.
Lookups(d) == Cardinality({j \in 1..Len(meta_calls) : meta_calls[j] = d})

\* C11: no metadata lookup is issued before fusion has finished; in a
\* completed request the metadata store was queried exactly once for each
\* document of the returned page slice and never for a fused document outside
\* it, every hit in results has meta attached, every fused document outside
\* the slice keeps meta absent, and a page beyond the last page issues no
\* lookup at all.
C11_LazyEnrichment ==
    /\ (meta_calls # << >> => FusionDone)
    /\ (pc = "done" =>
          /\ \A i \in 1..Len(documents) :
                /\ Lookups(documents[i].id) = (IF OnPage(i) THEN 1 ELSE 0)
                /\ (documents[i].meta # None) <=> OnPage(i)
          /\ \A j \in 1..Len(meta_calls) :
                \E i \in 1..Len(documents) : documents[i].id = meta_calls[j]
          /\ \A n \in 1..Len(Val(response).results) :
                Val(response).results[n].meta # None
          /\ (PageStart >= Len(documents) => meta_calls = << >>))

\* C11 witness: a completed request with two fused documents and a page of
\* one: one lookup, the document outside the page left without meta.
C11_Witness ==
    /\ pc = "done"
    /\ Len(documents) = 2
    /\ request.page_size = 1
    /\ Len(Val(response).results) = 1
    /\ Len(meta_calls) = 1
    /\ \E i \in 1..2 : documents[i].meta = None

\* C11, the page beyond the last: a completed request with fused documents
\* and an empty page, without any lookup.
C11_BeyondLastPage ==
    /\ pc = "done"
    /\ Len(documents) = 2
    /\ PageStart >= 2
    /\ Val(response).results = << >>
    /\ meta_calls = << >>

\* The recall budget the claim gives for normalized p and ps.
Budget(p, ps) == IF p * ps * 5 > 50 THEN p * ps * 5 ELSE 50

\* C12: for every integer page and page_size, zero and negative included, the
\* page used and reported is max(1, page), the page size used and reported is
\* at least 1 (10 when the given one is below 1, else the given one), the
\* budget passed to both adapters is max(50, page * page_size * 5) of the
\* normalized values, total_pages is computed with a non-zero divisor, and
\* the request fails only when an external call raised.
C12_PaginationNormalized ==
    /\ (pc # "start" =>
          /\ page = (IF request.page < 1 THEN 1 ELSE request.page)
          /\ page >= 1
          /\ page_size = (IF request.page_size < 1 THEN 10 ELSE request.page_size)
          /\ page_size >= 1
          /\ k = Budget(page, page_size)
          /\ top_k.lexical = k
          /\ (calls.vector # "idle" => top_k.vector = k))
    /\ (response # None =>
          /\ Val(response).page = page
          /\ Val(response).page_size = page_size
          /\ Val(response).total_pages * page_size >= Val(response).total_results)
    /\ (pc = "failed" => \E c \in CallKinds : calls[c] = "raised")

\* C12 witness: a request with page and page_size below 1 completes, served
\* and reported as page 1 of size 10 with budget 50.
C12_Witness ==
    /\ pc = "done"
    /\ request.page < 1 /\ request.page_size < 1
    /\ Val(response).page = 1 /\ Val(response).page_size = 10
    /\ top_k = [lexical |-> 50, vector |-> 50]
    /\ Val(response).total_results = 2

\* C12, a budget above the floor: page 2 with an invalid page_size asks both
\* adapters for 2 * 10 * 5 = 100 hits.
C12_LargeBudget ==
    /\ calls.vector = "done"
    /\ request.page = 2 /\ request.page_size < 1
    /\ top_k = [lexical |-> 100, vector |-> 100]

\* ceil(n / d) for n >= 0 and d >= 1: the least m with m * d >= n.
CeilDiv(n, d) == CHOOSE m \in 0..n : m * d >= n /\ \A j \in 0..n : j * d >= n => m <= j

\* C13: search reports total_results = len(fused), total_pages =
\* ceil(total_results / page_size) (0 without results), and results is the
\* contiguous slice of the fused list from index (page - 1) * page_size, in
\* fused order, of length min(page_size, max(0, total_results - (page - 1) *
\* page_size)); 23 results with page size 10 give 3 pages, page 3 has 3 results.
C13_Pagination ==
    response # None =>
        LET rsp == Val(response)
            n == Len(documents)
            first == (page - 1) * page_size
            len == min(page_size, max(0, n - first))
        IN  /\ rsp.total_results = n
            /\ rsp.total_pages = CeilDiv(n, page_size)
            /\ (n = 0 => rsp.total_pages = 0)
            /\ Len(rsp.results) = len
            /\ \A i \in 1..len : rsp.results[i] = documents[first + i]
            /\ (n = 23 /\ page_size = 10 =>
                  /\ rsp.total_pages = 3
                  /\ (page = 3 => Len(rsp.results) = 3))

\* C13 witness: 23 fused documents, page size 10, page 3: 3 pages are
\* reported and the page holds the last 3 documents.
C13_Witness ==
    /\ response # None
    /\ Len(documents) = 23
    /\ page_size = 10 /\ page = 3
    /\ Val(response).total_pages = 3
    /\ Len(Val(response).results) = 3
    /\ Val(response).results[3] = documents[23]

====
